---- MODULE Spec2Model ----
(***************************************************************************)
(* Model of OscProb::PMNS_NSI (src/PMNS_NSI.cxx): the store of NSI         *)
(* coefficients fEps, the eigensystem-valid flag fGotES and the assembly   *)
(* of the matter Hamiltonian fHam.                                         *)
(*                                                                         *)
(* Numbers.  A double is modelled by an exact rational <<n, d>> in lowest  *)
(* terms (d > 0); a complex<double> by a pair <<re, im>> of rationals.     *)
(* Phases are multiples of a quarter turn: phase k stands for k*pi/2, for  *)
(* which cos and sin are 0, 1 or -1, so that the polar construction of     *)
(* SetEps is computed, not assumed.  Rounding, NaN and infinities are not  *)
(* modelled.                                                               *)
(***************************************************************************)
EXTENDS Integers, Sequences, FiniteSets, TLC

VARIABLES
  fEps,      \* complex fEps[3][3], the NSI coefficients
  fGotES,    \* the eigensystem-valid flag (base class)
  fHam,      \* complex fHam[3][3], the Hamiltonian (base class)
  fHms,      \* complex fHms[3][3], the mass-squared matrix (base class)
  fEnergy,   \* neutrino energy in GeV (base class)
  fPath,     \* [density, zoa] of the current path (base class)
  fIsNuBar,  \* antineutrino flag (base class)
  call,      \* name of the last public call made on the object
  cout,      \* diagnostic lines the last call wrote to std::cout
  ret,       \* value returned by the last call (NoRet for a void call)
  aborted,   \* the process died (out-of-bounds array access)
  nCalls     \* number of calls made since construction

vars == <<fEps, fGotES, fHam, fHms, fEnergy, fPath, fIsNuBar,
          call, cout, ret, aborted, nCalls>>

envVars == <<fHms, fEnergy, fPath, fIsNuBar>>

-----------------------------------------------------------------------------
(* Bounds of the model *)

MaxCalls == 2     \* calls explored after construction
MaxVal == 1       \* magnitudes are drawn from 0..MaxVal

-----------------------------------------------------------------------------
(* Exact rational arithmetic standing for double *)

Abs(x) == IF x < 0 THEN -x ELSE x

RECURSIVE GCD(_, _)
GCD(a, b) == IF b = 0 THEN a ELSE GCD(b, a % b)

Rat(n, d) ==
  LET g == GCD(Abs(n), Abs(d))
      s == IF d < 0 THEN -1 ELSE 1
  IN  <<(s * n) \div g, (s * d) \div g>>

R(n) == <<n, 1>>
RAdd(a, b) == Rat(a[1] * b[2] + b[1] * a[2], a[2] * b[2])
RNeg(a) == <<-a[1], a[2]>>
RSub(a, b) == RAdd(a, RNeg(b))
RMul(a, b) == Rat(a[1] * b[1], a[2] * b[2])
RDiv(a, b) == Rat(a[1] * b[2], a[2] * b[1])

(* complex<double> *)
C(re, im) == <<re, im>>
CReal(x) == <<x, R(0)>>                       \* complex(double)
zero == CReal(R(0))
CAdd(a, b) == <<RAdd(a[1], b[1]), RAdd(a[2], b[2])>>
CSub(a, b) == <<RSub(a[1], b[1]), RSub(a[2], b[2])>>
CMul(a, b) == <<RSub(RMul(a[1], b[1]), RMul(a[2], b[2])),
                RAdd(RMul(a[1], b[2]), RMul(a[2], b[1]))>>
CScale(x, a) == <<RMul(x, a[1]), RMul(x, a[2])>>     \* double * complex
CDivReal(a, x) == <<RDiv(a[1], x), RDiv(a[2], x)>>   \* complex / double
conj(a) == <<a[1], RNeg(a[2])>>

(* cos and sin of k quarter turns *)
cos(k) == R(CASE k % 4 = 0 -> 1 [] k % 4 = 1 -> 0 [] k % 4 = 2 -> -1 [] OTHER -> 0)
sin(k) == R(CASE k % 4 = 0 -> 0 [] k % 4 = 1 -> 1 [] k % 4 = 2 -> 0 [] OTHER -> -1)

-----------------------------------------------------------------------------
(* Constants of the base class.  The model works in scaled units: each     *)
(* constant is a small integer standing for the physical value.            *)

fNumNus == 3
kGeV2eV == 3
kK2 == 5
kGf == 7
M_SQRT2 == 2

Flv == 0 .. (fNumNus - 1)
ZeroMatrix == [i \in Flv |-> [j \in Flv |-> zero]]

NoRet == <<"void">>

-----------------------------------------------------------------------------
(* PMNS_NSI::SetEps and PMNS_NSI::GetEps *)

(* The part of the object SetEps and GetEps work on.  ub records that an   *)
(* array was indexed outside [0,2], which is undefined behaviour.          *)
Store == [fEps |-> fEps, fGotES |-> fGotES, cout |-> <<>>, ub |-> FALSE]

(* flvi and flvj after "if(flvi > flvj){ temp = flvi; flvi = flvj; flvj = temp; }" *)
SwapI(flvi, flvj) == IF flvi > flvj THEN flvj ELSE flvi
(* the swap written without the temporary: flvi = flvj; flvj = flvi; *)
SwapJNoTemp(flvi, flvj) == flvj
SwapJ(flvi, flvj) == IF flvi > flvj THEN flvi ELSE flvj

(* the range test without its last disjunct *)
InvalidNoUpper(flvi, flvj) == flvi < 0 \/ flvi > 2 \/ flvj < flvi

(* if(flvi<0 || flvi>2 || flvj < flvi || flvj > 2) *)
Invalid(flvi, flvj) == flvi < 0 \/ flvi > 2 \/ flvj < flvi \/ flvj > 2

InBounds(flvi, flvj) == flvi \in Flv /\ flvj \in Flv

(* the offset added on every diagonal entry: "else h += 1;" *)
EpsValueAllDiag(flvi, flvj, val, phase) ==
  IF flvi # flvj THEN CMul(CReal(val), C(cos(phase), sin(phase)))
  ELSE CAdd(CReal(val), CReal(R(1)))

(* the offset of the ee entry left out *)
EpsValueNoOffset(flvi, flvj, val, phase) ==
  IF flvi # flvj THEN CMul(CReal(val), C(cos(phase), sin(phase)))
  ELSE CReal(val)

(* complex h = val; if(flvi != flvj) h *= complex(cos(phase), sin(phase)); *)
(* else if(flvi == 0) h += 1;                                              *)
EpsValue(flvi, flvj, val, phase) ==
  IF flvi # flvj THEN CMul(CReal(val), C(cos(phase), sin(phase)))
  ELSE IF flvi = 0 THEN CAdd(CReal(val), CReal(R(1)))
  ELSE CReal(val)

(* "fGotES += ..." and "fGotES = ..." in place of "fGotES *= ..." *)
GotESPlus(gotES, old, h) == gotES \/ (old = h)
GotESAssign(gotES, old, h) == (old = h)

(* fGotES *= (fEps[flvi][flvj] == h); *)
GotESAfter(gotES, old, h) == gotES /\ (old = h)

(* the coefficient mirrored into the lower triangle as well *)
StoreEpsMirrored(eps, flvi, flvj, h) ==
  [eps EXCEPT ![flvi][flvj] = h, ![flvj][flvi] = conj(h)]

(* fEps[flvi][flvj] = h; *)
StoreEps(eps, flvi, flvj, h) == [eps EXCEPT ![flvi][flvj] = h]

SetEps(s, flvi0, flvj0, val, phase) ==
  LET flvi == SwapI(flvi0, flvj0)
      flvj == SwapJ(flvi0, flvj0)
      out  == IF flvi0 > flvj0 THEN Append(s.cout, "reverse") ELSE s.cout
  IN  IF Invalid(flvi, flvj)
      THEN [s EXCEPT !.cout = Append(out, "invalid")]
      ELSE IF ~InBounds(flvi, flvj)
      THEN [s EXCEPT !.cout = out, !.ub = TRUE]
      ELSE LET h == EpsValue(flvi, flvj, val, phase)
           IN  [fEps   |-> StoreEps(s.fEps, flvi, flvj, h),
                fGotES |-> GotESAfter(s.fGotES, s.fEps[flvi][flvj], h),
                cout   |-> out,
                ub     |-> s.ub]

GetEps(s, flvi0, flvj0) ==
  LET flvi == SwapI(flvi0, flvj0)
      flvj == SwapJ(flvi0, flvj0)
      out  == IF flvi0 > flvj0 THEN Append(s.cout, "reverse") ELSE s.cout
  IN  IF Invalid(flvi, flvj)
      THEN [ret |-> zero, cout |-> Append(out, "invalid"), ub |-> s.ub]
      ELSE IF ~InBounds(flvi, flvj)
      THEN [ret |-> zero, cout |-> out, ub |-> TRUE]
      ELSE [ret |-> s.fEps[flvi][flvj], cout |-> out, ub |-> s.ub]

(* eps_mumu and eps_mutau taken one for the other *)
SetNSIMixed(s, eps_ee, eps_emu, eps_etau, eps_mumu, eps_mutau, eps_tautau, delta_emu, delta_etau, delta_mutau) ==
  LET s1 == SetEps(s,  0, 0, eps_ee, 0)
      s2 == SetEps(s1, 1, 1, eps_mutau, 0)
      s3 == SetEps(s2, 2, 2, eps_tautau, 0)
      s4 == SetEps(s3, 0, 1, eps_emu, delta_emu)
      s5 == SetEps(s4, 0, 2, eps_etau, delta_etau)
  IN  SetEps(s5, 1, 2, eps_mumu, delta_mutau)

(* PMNS_NSI::SetNSI: six calls of SetEps in the order of the source *)
SetNSI(s, eps_ee, eps_emu, eps_etau, eps_mumu, eps_mutau, eps_tautau, delta_emu, delta_etau, delta_mutau) ==
  LET s1 == SetEps(s,  0, 0, eps_ee, 0)
      s2 == SetEps(s1, 1, 1, eps_mumu, 0)
      s3 == SetEps(s2, 2, 2, eps_tautau, 0)
      s4 == SetEps(s3, 0, 1, eps_emu, delta_emu)
      s5 == SetEps(s4, 0, 2, eps_etau, delta_etau)
  IN  SetEps(s5, 1, 2, eps_mutau, delta_mutau)

(* The six wrappers *)
SetEps_ee(s, a) == SetEps(s, 0, 0, a, 0)
SetEps_mumu(s, a) == SetEps(s, 1, 1, a, 0)
SetEps_tautau(s, a) == SetEps(s, 2, 2, a, 0)
SetEps_emu(s, a, phi) == SetEps(s, 0, 1, a, phi)
SetEps_etau(s, a, phi) == SetEps(s, 0, 2, a, phi)
SetEps_mutau(s, a, phi) == SetEps(s, 1, 2, a, phi)

-----------------------------------------------------------------------------
(* PMNS_NSI::UpdateHam *)

(* the antineutrino branch without the conjugation *)
UpdateHamNoConj(ham, eps, hms, energy, path, isNuBar) ==
  LET lv     == RMul(RMul(R(2), R(kGeV2eV)), energy)
      k0     == RMul(RMul(R(kK2), R(M_SQRT2)), R(kGf))
      kr2GNe == RMul(k0, RMul(path.density, path.zoa))
  IN  [i \in Flv |-> [j \in Flv |->
        IF j >= i
        THEN IF ~isNuBar
             THEN CAdd(CDivReal(hms[i][j], lv), CScale(kr2GNe, eps[i][j]))
             ELSE CSub(CDivReal(hms[i][j], lv), CScale(kr2GNe, eps[i][j]))
        ELSE ham[i][j]]]

(* the result written to fHam[j][i] *)
UpdateHamTransposed(ham, eps, hms, energy, path, isNuBar) ==
  LET lv     == RMul(RMul(R(2), R(kGeV2eV)), energy)
      k0     == RMul(RMul(R(kK2), R(M_SQRT2)), R(kGf))
      kr2GNe == RMul(k0, RMul(path.density, path.zoa))
  IN  [j \in Flv |-> [i \in Flv |->
        IF j >= i
        THEN IF ~isNuBar
             THEN CAdd(CDivReal(hms[i][j], lv), CScale(kr2GNe, eps[i][j]))
             ELSE conj(CSub(CDivReal(hms[i][j], lv), CScale(kr2GNe, eps[i][j])))
        ELSE ham[j][i]]]

UpdateHam(ham, eps, hms, energy, path, isNuBar) ==
  LET lv     == RMul(RMul(R(2), R(kGeV2eV)), energy)
      k0     == RMul(RMul(R(kK2), R(M_SQRT2)), R(kGf))
      kr2GNe == RMul(k0, RMul(path.density, path.zoa))
  IN  [i \in Flv |-> [j \in Flv |->
        IF j >= i
        THEN IF ~isNuBar
             THEN CAdd(CDivReal(hms[i][j], lv), CScale(kr2GNe, eps[i][j]))
             ELSE conj(CSub(CDivReal(hms[i][j], lv), CScale(kr2GNe, eps[i][j])))
        ELSE ham[i][j]]]

-----------------------------------------------------------------------------
(* Inputs *)

Vals == {R(v) : v \in 0 .. MaxVal}
Phases == {0, 1}               \* phase 0 and a quarter turn
FlvArgs == -1 .. fNumNus      \* one index beyond each end of [0,2]

(* Arguments of SetNSI <<eps_ee, eps_emu, eps_etau, eps_mumu, eps_mutau,   *)
(* eps_tautau, delta_emu, delta_etau, delta_mutau>>: the magnitude at      *)
(* position k is v and the others are 0 (k = 0: all six are v); the phase  *)
(* of the off-diagonal pair 1 + (k % 3) is p and the others are 0          *)
NSIArg(v, k, p) ==
  [m \in 1 .. 9 |->
     IF m <= 6 THEN (IF k = 0 \/ m = k THEN v ELSE R(0))
     ELSE (IF m - 6 = 1 + (k % 3) THEN p ELSE 0)]

(* Mass-squared matrices the engine supplies: upper triangular storage *)
HmsSample ==
  [i \in Flv |-> [j \in Flv |->
     IF i <= j THEN C(R(i + 2 * j), R(j - i)) ELSE zero]]
HmsSet == {ZeroMatrix, HmsSample}

PathSet == {[density |-> Rat(13, 5), zoa |-> Rat(1, 2)]}
Energies == {R(2)}

-----------------------------------------------------------------------------
(* The object after PMNS_NSI::PMNS_NSI() and the engine's configuration of *)
(* the mass matrix, the path, the energy and the antineutrino flag         *)

Constructed ==
  SetNSI([fEps |-> ZeroMatrix, fGotES |-> FALSE, cout |-> <<>>, ub |-> FALSE],
         R(0), R(0), R(0), R(0), R(0), R(0), 0, 0, 0)

Init ==
  /\ fEps = Constructed.fEps
  /\ fGotES = Constructed.fGotES
  /\ fHam = ZeroMatrix
  /\ fHms \in HmsSet
  /\ fEnergy \in Energies
  /\ fPath \in PathSet
  /\ fIsNuBar \in BOOLEAN
  /\ call = "PMNS_NSI"
  /\ cout = Constructed.cout
  /\ ret = NoRet
  /\ aborted = FALSE
  /\ nCalls = 0

CanCall == nCalls < MaxCalls /\ ~aborted

(* The effect of a setter that left the store r *)
Setter(name, r) ==
  /\ CanCall
  /\ call' = name
  /\ nCalls' = nCalls + 1
  /\ fEps' = r.fEps
  /\ fGotES' = r.fGotES
  /\ cout' = r.cout
  /\ ret' = NoRet
  /\ aborted' \in (IF r.ub THEN BOOLEAN ELSE {FALSE})
  /\ UNCHANGED <<fHam, envVars>>

SetNSICall(a) ==
  Setter("SetNSI", SetNSI(Store, a[1], a[2], a[3], a[4], a[5], a[6], a[7], a[8], a[9]))

SetEpsCall(flvi, flvj, val, phase) ==
  Setter("SetEps", SetEps(Store, flvi, flvj, val, phase))

GetEpsCall(flvi, flvj) ==
  LET r == GetEps(Store, flvi, flvj)
  IN  /\ CanCall
      /\ call' = "GetEps"
      /\ nCalls' = nCalls + 1
      /\ cout' = r.cout
      /\ ret' = r.ret
      /\ aborted' \in (IF r.ub THEN BOOLEAN ELSE {FALSE})
      /\ UNCHANGED <<fEps, fGotES, fHam, envVars>>

SetEps_eeCall(a) == Setter("SetEps_ee", SetEps_ee(Store, a))
SetEps_mumuCall(a) == Setter("SetEps_mumu", SetEps_mumu(Store, a))
SetEps_tautauCall(a) == Setter("SetEps_tautau", SetEps_tautau(Store, a))
SetEps_emuCall(a, phi) == Setter("SetEps_emu", SetEps_emu(Store, a, phi))
SetEps_etauCall(a, phi) == Setter("SetEps_etau", SetEps_etau(Store, a, phi))
SetEps_mutauCall(a, phi) == Setter("SetEps_mutau", SetEps_mutau(Store, a, phi))

UpdateHamCall ==
  /\ CanCall
  /\ call' = "UpdateHam"
  /\ nCalls' = nCalls + 1
  /\ fHam' = UpdateHam(fHam, fEps, fHms, fEnergy, fPath, fIsNuBar)
  /\ cout' = <<>>
  /\ ret' = NoRet
  /\ UNCHANGED <<fEps, fGotES, envVars, aborted>>

(* The propagation engine: re-diagonalise unless the eigensystem is valid *)
SolveHam ==
  /\ CanCall
  /\ call' = "SolveHam"
  /\ nCalls' = nCalls + 1
  /\ IF fGotES
     THEN UNCHANGED <<fHam, fGotES>>
     ELSE /\ fHam' = UpdateHam(fHam, fEps, fHms, fEnergy, fPath, fIsNuBar)
          /\ fGotES' = TRUE
  /\ cout' = <<>>
  /\ ret' = NoRet
  /\ UNCHANGED <<fEps, envVars, aborted>>

Next ==
  \/ \E v \in Vals, k \in 0 .. 6, p \in Phases :
       SetNSICall(NSIArg(v, k, p))
  \/ \E flvi \in FlvArgs, flvj \in FlvArgs, val \in Vals, phase \in Phases :
       SetEpsCall(flvi, flvj, val, phase)
  \/ \E flvi \in FlvArgs, flvj \in FlvArgs : GetEpsCall(flvi, flvj)
  \/ \E a \in Vals : SetEps_eeCall(a)
  \/ \E a \in Vals : SetEps_mumuCall(a)
  \/ \E a \in Vals : SetEps_tautauCall(a)
  \/ \E a \in Vals, phi \in Phases : SetEps_emuCall(a, phi)
  \/ \E a \in Vals, phi \in Phases : SetEps_etauCall(a, phi)
  \/ \E a \in Vals, phi \in Phases : SetEps_mutauCall(a, phi)
  \/ UpdateHamCall
  \/ SolveHam

Spec == Init /\ [][Next]_vars

-----------------------------------------------------------------------------
(* Properties *)

Min(a, b) == IF a <= b THEN a ELSE b
Max(a, b) == IF a <= b THEN b ELSE a

(* Index pairs that are valid after the optional swap, and the others *)
ValidPairs == {q \in FlvArgs \X FlvArgs : q[1] \in 0 .. 2 /\ q[2] \in 0 .. 2}
OutPairs == (FlvArgs \X FlvArgs) \ ValidPairs

(* a*(cos(phi) + i*sin(phi)) *)
Polar(a, phi) == C(RMul(a, cos(phi)), RMul(a, sin(phi)))

(* The value the specification gives the coefficient (i, j), i <= j *)
ExpectedEps(i, j, a, phi) ==
  IF i < j THEN Polar(a, phi)
  ELSE IF i = 0 THEN CReal(RAdd(R(1), a))
  ELSE CReal(a)

CoreCalls == {"SetNSI", "SetEps", "GetEps", "UpdateHam", "SetEps_ee",
              "SetEps_mumu", "SetEps_tautau", "SetEps_emu", "SetEps_etau",
              "SetEps_mutau"}

(* The store a setter left, as the next call finds it *)
After(r) == [r EXCEPT !.cout = <<>>]

(* C1: after SetEps with indices valid after the swap, the flag is the     *)
(* flag before AND (constructed value = value stored before), whatever     *)
(* (val, phase) the value was constructed from.                            *)
C1_FlagIsConjunction ==
  CanCall => \A q \in ValidPairs, v \in Vals, p \in Phases :
    LET lo == Min(q[1], q[2])
        hi == Max(q[1], q[2])
        r  == SetEps(Store, q[1], q[2], v, p)
    IN  r.fGotES = (fGotES /\ fEps[lo][hi] = ExpectedEps(lo, hi, v, p))

(* a valid SetEps call that found the flag true and left it true *)
C1_Witness == call = "SetEps" /\ cout = <<>> /\ fGotES

(* C2: no call of the core changes the flag from false to true. *)
C2_FlagOnlyCleared ==
  [][call' \in CoreCalls => (fGotES' => fGotES)]_vars

(* a setter of the core found an eigensystem computed and left the flag false *)
C2_Witness ==
  /\ call \in CoreCalls \ {"GetEps", "UpdateHam"}
  /\ nCalls = 2
  /\ fHam # ZeroMatrix
  /\ ~fGotES

(* C3: with an index outside [0,2], in either order, SetEps changes        *)
(* nothing and GetEps returns complex zero; neither aborts the process.    *)
C3_OutOfRange ==
  /\ [](/\ ~aborted
        /\ CanCall => \A q \in OutPairs :
             /\ \A v \in Vals, p \in Phases :
                  LET r == SetEps(Store, q[1], q[2], v, p)
                  IN  r.fEps = fEps /\ r.fGotES = fGotES /\ ~r.ub
             /\ LET g == GetEps(Store, q[1], q[2])
                IN  g.ret = zero /\ ~g.ub)
  /\ [][(call' \in {"SetEps", "GetEps"} /\ cout' # <<>>
         /\ cout'[Len(cout')] = "invalid")
        => (UNCHANGED <<fEps, fGotES, fHam>> /\ ~aborted'
            /\ (call' = "GetEps" => ret' = zero))]_vars

(* a rejected GetEps call returned zero after an eigensystem was computed *)
C3_Witness ==
  /\ call = "GetEps"
  /\ cout # <<>> /\ cout[Len(cout)] = "invalid"
  /\ ret = zero
  /\ fGotES
  /\ ~aborted

(* C4: for valid flvi > flvj the swapped call behaves as the call in       *)
(* order: same fEps, same flag, same GetEps value; the entry written is    *)
(* [flvj][flvi], never [flvi][flvj].                                       *)
C4_SwapSymmetry ==
  CanCall => \A q \in ValidPairs :
    q[1] > q[2] =>
      /\ GetEps(Store, q[1], q[2]).ret = GetEps(Store, q[2], q[1]).ret
      /\ \A v \in Vals, p \in Phases :
           LET a == SetEps(Store, q[1], q[2], v, p)
               b == SetEps(Store, q[2], q[1], v, p)
           IN  /\ a.fEps = b.fEps
               /\ a.fGotES = b.fGotES
               /\ a.fEps[q[2]][q[1]] = ExpectedEps(q[2], q[1], v, p)
               /\ a.fEps[q[1]][q[2]] = fEps[q[1]][q[2]]

(* a swapped SetEps call changed an upper entry and no lower entry *)
C4_Witness ==
  /\ call = "SetEps"
  /\ cout = <<"reverse">>
  /\ \E i \in Flv, j \in Flv :
       i > j /\ fEps[j][i] # zero /\ fEps[i][j] = zero

(* C5: GetEps(i, j) right after SetEps(i, j, a, phi), i <= j valid, returns *)
(* a (+ 1 iff i = 0) on the diagonal, the phase ignored, and                *)
(* a*(cos(phi) + i*sin(phi)) off the diagonal; the wrappers likewise.       *)
C5_ReadAfterWrite ==
  /\ CanCall => \A i \in Flv, j \in Flv, a \in Vals, phi \in Phases :
       i <= j =>
         GetEps(After(SetEps(Store, i, j, a, phi)), i, j).ret
           = ExpectedEps(i, j, a, phi)
  /\ CanCall => \A a \in Vals :
       /\ GetEps(After(SetEps_ee(Store, a)), 0, 0).ret = CReal(RAdd(R(1), a))
       /\ GetEps(After(SetEps_mumu(Store, a)), 1, 1).ret = CReal(a)
       /\ GetEps(After(SetEps_tautau(Store, a)), 2, 2).ret = CReal(a)
  /\ CanCall => \A a \in Vals, phi \in Phases :
       /\ GetEps(After(SetEps_emu(Store, a, phi)), 0, 1).ret = Polar(a, phi)
       /\ GetEps(After(SetEps_etau(Store, a, phi)), 0, 2).ret = Polar(a, phi)
       /\ GetEps(After(SetEps_mutau(Store, a, phi)), 1, 2).ret = Polar(a, phi)
  /\ (call = "GetEps" /\ cout = <<>>) =>
       \E i \in Flv, j \in Flv : i <= j /\ ret = fEps[i][j]

(* GetEps read back 1 + a with a # 0 for the ee entry *)
C5_Witness ==
  /\ call = "GetEps"
  /\ cout = <<>>
  /\ ret = CReal(R(2))
  /\ fEps[0][0] = CReal(R(2))

(* The six coefficients SetNSI(a) is to store, by the specification *)
ExpectedNSI(a) ==
  [i \in Flv |-> [j \in Flv |->
     CASE i = 0 /\ j = 0 -> CReal(RAdd(R(1), a[1]))
       [] i = 1 /\ j = 1 -> CReal(a[4])
       [] i = 2 /\ j = 2 -> CReal(a[6])
       [] i = 0 /\ j = 1 -> Polar(a[2], a[7])
       [] i = 0 /\ j = 2 -> Polar(a[3], a[8])
       [] i = 1 /\ j = 2 -> Polar(a[5], a[9])
       [] OTHER -> fEps[i][j]]]

NSIArgs == {NSIArg(v, k, p) : v \in Vals, k \in 0 .. 6, p \in Phases}

(* C6: SetNSI replaces the six coefficients by 1 + eps_ee, eps_mumu,       *)
(* eps_tautau and the three polar values, whatever was stored; the flag    *)
(* afterwards is true iff it was true and all six already held them.       *)
C6_SetNSIReplaces ==
  CanCall => \A a \in NSIArgs :
    LET r == SetNSI(Store, a[1], a[2], a[3], a[4], a[5], a[6], a[7], a[8], a[9])
    IN  /\ r.fEps = ExpectedNSI(a)
        /\ r.fGotES = (fGotES /\ fEps = ExpectedNSI(a))
        /\ r.cout = <<>>
        /\ ~r.ub

(* SetNSI found the flag true and the six values already stored *)
C6_Witness == call = "SetNSI" /\ fGotES

(* Hms[i][j]/lv + sign * kr2GNe * Eps[i][j], lv = 2E in eV *)
HamTerm(i, j, sign) ==
  LET lv     == RMul(R(2 * kGeV2eV), fEnergy)
      kr2GNe == RMul(R(kK2 * M_SQRT2 * kGf), RMul(fPath.density, fPath.zoa))
  IN  CAdd(CDivReal(fHms[i][j], lv),
           CScale(RMul(R(sign), kr2GNe), fEps[i][j]))

(* C7: after UpdateHam every entry i <= j of fHam is Hms/lv + kr2GNe*Eps   *)
(* for neutrinos and conj(Hms/lv - kr2GNe*Eps) for antineutrinos, whatever *)
(* fHam held before.                                                       *)
C7_HamFormula ==
  call = "UpdateHam" =>
    \A i \in Flv, j \in Flv :
      i <= j =>
        fHam[i][j] = IF fIsNuBar THEN conj(HamTerm(i, j, -1))
                     ELSE HamTerm(i, j, 1)

(* UpdateHam ran in antineutrino mode on an entry with an imaginary part *)
C7_Witness ==
  /\ call = "UpdateHam"
  /\ fIsNuBar
  /\ fHms # ZeroMatrix
  /\ fEps[0][1][2] # R(0)
  /\ fHam[0][1][2] # R(0)

(* C8: UpdateHam changes only the entries i <= j of fHam: the flag, fEps,  *)
(* fHms, the path, the energy, the antineutrino flag and the entries i > j *)
(* of fHam stay; a second call changes nothing.                            *)
C8_UpdateHamFrame ==
  [][call' = "UpdateHam" =>
       /\ UNCHANGED <<fGotES, fEps, fHms, fPath, fEnergy, fIsNuBar>>
       /\ \A i \in Flv, j \in Flv : i > j => fHam'[i][j] = fHam[i][j]
       /\ UpdateHam(fHam', fEps', fHms', fEnergy', fPath', fIsNuBar') = fHam'
    ]_vars

(* UpdateHam ran while the eigensystem was valid and left it valid *)
C8_Witness ==
  /\ call = "UpdateHam"
  /\ fGotES
  /\ fHam # ZeroMatrix

Diag100 ==
  [i \in Flv |-> [j \in Flv |-> IF i = 0 /\ j = 0 THEN CReal(R(1)) ELSE zero]]

(* C9: a fresh builder, and any builder after SetNSI(0,...,0), stores      *)
(* diag(1,0,0); UpdateHam for neutrinos then gives Hms/(2E) plus the       *)
(* matter coefficient on Ham[0][0] only.                                   *)
C9_ZeroNSI ==
  /\ call = "PMNS_NSI" => fEps = Diag100
  /\ CanCall =>
       SetNSI(Store, R(0), R(0), R(0), R(0), R(0), R(0), 0, 0, 0).fEps = Diag100
  /\ (call = "UpdateHam" /\ fEps = Diag100 /\ ~fIsNuBar) =>
       \A i \in Flv, j \in Flv :
         i <= j =>
           fHam[i][j] =
             CAdd(CDivReal(fHms[i][j], RMul(R(2 * kGeV2eV), fEnergy)),
                  IF i = 0 /\ j = 0
                  THEN CReal(RMul(R(kK2 * M_SQRT2 * kGf),
                                  RMul(fPath.density, fPath.zoa)))
                  ELSE zero)

(* UpdateHam ran for neutrinos on a non-zero Hms with zero NSI *)
C9_Witness ==
  /\ call = "UpdateHam"
  /\ fEps = Diag100
  /\ ~fIsNuBar
  /\ fHms # ZeroMatrix
  /\ fHam[0][0] # CDivReal(fHms[0][0], RMul(R(2 * kGeV2eV), fEnergy))
  /\ fHam[1][1] = CDivReal(fHms[1][1], RMul(R(2 * kGeV2eV), fEnergy))

(* C10: a valid SetEps changes at most the entry [min][max] of fEps and    *)
(* the flag; the entries i > j of fEps are never written (they stay zero), *)
(* fHam is not touched by a setter, and GetEps changes no state.           *)
C10_OneCoefficient ==
  /\ [](/\ \A i \in Flv, j \in Flv : i > j => fEps[i][j] = zero
        /\ CanCall => \A q \in ValidPairs, v \in Vals, p \in Phases :
             LET r == SetEps(Store, q[1], q[2], v, p)
             IN  \A i \in Flv, j \in Flv :
                   <<i, j>> # <<Min(q[1], q[2]), Max(q[1], q[2])>>
                     => r.fEps[i][j] = fEps[i][j])
  /\ [][/\ call' = "SetEps" =>
             /\ Cardinality({q \in Flv \X Flv :
                               fEps'[q[1]][q[2]] # fEps[q[1]][q[2]]}) <= 1
             /\ UNCHANGED <<fHam, fHms, fPath, fEnergy, fIsNuBar>>
        /\ call' = "SetNSI" => UNCHANGED <<fHam, fHms, fPath, fEnergy, fIsNuBar>>
        /\ call' = "GetEps" =>
             UNCHANGED <<fEps, fGotES, fHam, fHms, fPath, fEnergy, fIsNuBar>>
       ]_vars

(* SetEps changed a coefficient and fHam still holds the old Hamiltonian *)
C10_Witness ==
  /\ call = "SetEps"
  /\ fHam # ZeroMatrix
  /\ fHam # UpdateHam(fHam, fEps, fHms, fEnergy, fPath, fIsNuBar)

====
